---- MODULE Spec2Model ----
(***************************************************************************)
(* Model of src/lambda_function.py: the contact-form handler that parses   *)
(* an API Gateway event, renders a text and an HTML body and sends them    *)
(* through Amazon SES with one synchronous send_email call.                *)
(*                                                                         *)
(* Python str values are sequences of one-character strings, so that       *)
(* f-string interpolation, str.replace and json.dumps are computed         *)
(* character by character. A Python value is a record [t, v]: t is the     *)
(* name of its type and v its content.                                     *)
(***************************************************************************)
EXTENDS Integers, Sequences, FiniteSets, TLC

\* Number of invocations of lambda_handler a behaviour may hold.
MaxInvocations == 2

(***************************************************************************)
(* Python values.                                                          *)
(***************************************************************************)
PyStr(s) == [t |-> "str", v |-> s]

\* An int; v is its decimal text.
PyInt(s) == [t |-> "int", v |-> s]

None == [t |-> "NoneType", v |-> <<>>]

PyList == [t |-> "list", v |-> <<>>]

\* A dict; v is a function from its keys to their values.
PyDict(f) == [t |-> "dict", v |-> f]

\* An exception object of class t; v carries ClientError's response.
Exc(type) == [t |-> type, v |-> <<>>]

\* What a replacement field {x} of an f-string inserts: format(x, "").
Format(x) == IF x.t = "NoneType" THEN <<"N","o","n","e">> ELSE x.v

\* os.linesep on the Linux hosts that run the function.
os_linesep == <<"\n">>

\* str.replace(old, new), old non-empty: every non-overlapping occurrence,
\* leftmost first.
RECURSIVE str_replace(_, _, _)
str_replace(s, old, new) ==
  IF Len(s) < Len(old) THEN s
  ELSE IF SubSeq(s, 1, Len(old)) = old
       THEN new \o str_replace(SubSeq(s, Len(old) + 1, Len(s)), old, new)
       ELSE <<Head(s)>> \o str_replace(Tail(s), old, new)

(***************************************************************************)
(* json.dumps of a dict of str keys and str values, given as the sequence  *)
(* of its <<key, value>> items in insertion order.                         *)
(***************************************************************************)
JsonEscapeChar(c) ==
  IF c = "\"" THEN <<"\\","\"">>
  ELSE IF c = "\\" THEN <<"\\","\\">>
  ELSE IF c = "\n" THEN <<"\\","n">>
  ELSE <<c>>

RECURSIVE JsonEscape(_)
JsonEscape(s) ==
  IF s = <<>> THEN <<>> ELSE JsonEscapeChar(Head(s)) \o JsonEscape(Tail(s))

JsonQuote(s) == <<"\"">> \o JsonEscape(s) \o <<"\"">>

RECURSIVE JsonItems(_)
JsonItems(items) ==
  IF items = <<>> THEN <<>>
  ELSE JsonQuote(items[1][1]) \o <<":"," ">> \o JsonQuote(items[1][2])
       \o (IF Len(items) > 1 THEN <<","," ">> ELSE <<>>)
       \o JsonItems(Tail(items))

json_dumps(items) == <<"{">> \o JsonItems(items) \o <<"}">>

(***************************************************************************)
(* json.loads. The text of a body is represented by what the JSON grammar  *)
(* makes of it: syntax "empty" (the empty string), "malformed" (not a JSON *)
(* document) or "json" with the value the document denotes. json.loads     *)
(* raises JSONDecodeError on the first two and returns the value of the    *)
(* third.                                                                  *)
(***************************************************************************)
JsonText(syntax, value) == [t |-> "str", v |-> [syntax |-> syntax, value |-> value]]

json_loads(s) ==
  IF s.v.syntax = "json"
  THEN [ok |-> TRUE, value |-> s.v.value]
  ELSE [ok |-> FALSE, value |-> Exc("JSONDecodeError")]

\* event.get('body', ''): a missing key reads as the empty string.
event_get_default_empty(event, key) ==
  IF key \in DOMAIN event THEN event[key] ELSE JsonText("empty", None)

\* dict.get(key), None when the key is missing.
event_get(event, key) == IF key \in DOMAIN event THEN event[key] ELSE None

\* form_data.get(key): the default is dropped.
dict_get_no_default(d, key, default) == IF key \in DOMAIN d.v THEN d.v[key] ELSE None

\* dict.get(key, default).
dict_get(d, key, default) == IF key \in DOMAIN d.v THEN d.v[key] ELSE default

(***************************************************************************)
(* State.                                                                  *)
(***************************************************************************)
VARIABLES
  AWS_REGION,       \* module globals, set when the module is loaded
  SENDER_EMAIL,
  RECIPIENT_EMAIL,
  invocations,      \* number of invocations of lambda_handler so far
  event,            \* <<event>> of the latest invocation, <<>> before the first
  outcome,          \* <<what send_email did>> in the latest invocation, <<>> when not called
  returned,         \* <<response>> when the latest invocation returned
  raised,           \* <<exception>> when the latest invocation ended with an exception
  calls,            \* the send_email requests of the latest invocation
  sesCalls,         \* every send_email request made on ses_client so far
  stdout            \* the lines the latest invocation printed

vars == <<AWS_REGION, SENDER_EMAIL, RECIPIENT_EMAIL, invocations, event, outcome,
          returned, raised, calls, sesCalls, stdout>>

(***************************************************************************)
(* The templates of lambda_handler.                                        *)
(***************************************************************************)
NA == PyStr(<<"N","/","A">>)

HTML_BODY(name, email, subject, message) ==
  <<"\n"," "," "," "," "," "," "," "," ","<","h","t","m","l",">","\n"," "," "," "," ",
    " "," "," "," ","<","h","e","a","d",">","<","/","h","e","a","d",">","\n"," "," ",
    " "," "," "," "," "," ","<","b","o","d","y",">","\n"," "," "," "," "," "," "," ",
    " "," "," "," "," ","<","p",">","Y","o","u"," ","h","a","v","e"," ","r","e","c",
    "e","i","v","e","d"," ","a"," ","n","e","w"," ","c","o","n","t","a","c","t"," ",
    "f","o","r","m"," ","s","u","b","m","i","s","s","i","o","n",":","<","/","p",">",
    "\n"," "," "," "," "," "," "," "," "," "," "," "," ","<","u","l",">","\n"," "," ",
    " "," "," "," "," "," "," "," "," "," "," "," "," "," ","<","l","i",">","<","s",
    "t","r","o","n","g",">","N","a","m","e",":","<","/","s","t","r","o","n","g",">",
    " ">>
  \o Format(name)
  \o <<"<","/","l","i",">","\n"," "," "," "," "," "," "," "," "," "," "," "," "," "," ",
       " "," ","<","l","i",">","<","s","t","r","o","n","g",">","E","m","a","i","l",
       ":","<","/","s","t","r","o","n","g",">"," ">>
  \o Format(email)
  \o <<"<","/","l","i",">","\n"," "," "," "," "," "," "," "," "," "," "," "," ","<","/",
       "u","l",">","\n"," "," "," "," "," "," "," "," "," "," "," "," ","<","p",
       ">","<","s","t","r","o","n","g",">","S","u","b","j","e","c","t",":","<","/",
       "s","t","r","o","n","g",">"," ">>
  \o Format(subject)
  \o <<"<","/","p",">","\n"," "," "," "," "," "," "," "," "," "," "," "," ","<","h","3",
       ">","M","e","s","s","a","g","e",":","<","/","h","3",">","\n"," "," "," ",
       " "," "," "," "," "," "," "," "," ","<","p",">">>
  \o str_replace(message.v, os_linesep, <<"<","b","r",">">>)
  \o <<"<","/","p",">","\n"," "," "," "," "," "," "," "," ","<","/","b","o","d","y",">",
       "\n"," "," "," "," "," "," "," "," ","<","/","h","t","m","l",">","\n"," ",
       " "," "," "," "," "," "," ">>

\* The text template written without the indentation of the function body.
TEXT_BODY_dedented(name, email, subject, message) ==
  <<"\n","N","e","w"," ","C","o","n","t","a","c","t"," ","F","o","r","m"," ","S","u",
    "b","m","i","s","s","i","o","n",":","\n","N","a","m","e",":"," ">>
  \o Format(name)
  \o <<"\n","E","m","a","i","l",":"," ">>
  \o Format(email)
  \o <<"\n","S","u","b","j","e","c","t",":"," ">>
  \o Format(subject)
  \o <<"\n","M","e","s","s","a","g","e",":","\n">>
  \o Format(message)
  \o <<"\n">>

TEXT_BODY(name, email, subject, message) ==
  <<"\n"," "," "," "," "," "," "," "," ","N","e","w"," ","C","o","n","t","a","c","t",
    " ","F","o","r","m"," ","S","u","b","m","i","s","s","i","o","n",":","\n"," "," ",
    " "," "," "," "," "," ","N","a","m","e",":"," ">>
  \o Format(name)
  \o <<"\n"," "," "," "," "," "," "," "," ","E","m","a","i","l",":"," ">>
  \o Format(email)
  \o <<"\n"," "," "," "," "," "," "," "," ","S","u","b","j","e","c","t",":"," ">>
  \o Format(subject)
  \o <<"\n"," "," "," "," "," "," "," "," ","M","e","s","s","a","g","e",":","\n"," ",
       " "," "," "," "," "," "," ">>
  \o Format(message)
  \o <<"\n"," "," "," "," "," "," "," "," ">>

SubjectLine(subject) == <<"N","e","w"," ","C","o","n","t","a","c","t",":"," ">> \o Format(subject)

\* The submitter's address used as the destination as well.
SendEmailRequest_to_submitter(name, email, subject, message) ==
  [Destination |-> [ToAddresses |-> <<email>>],
   Message |->
     [Body |-> [Html |-> [Charset |-> "UTF-8",
                          Data |-> HTML_BODY(name, email, subject, message)],
                Text |-> [Charset |-> "UTF-8",
                          Data |-> TEXT_BODY(name, email, subject, message)]],
      Subject |-> [Charset |-> "UTF-8", Data |-> SubjectLine(subject)]],
   Source |-> SENDER_EMAIL,
   ReplyToAddresses |-> <<email>>]

\* The keyword arguments of ses_client.send_email.
SendEmailRequest(name, email, subject, message) ==
  [Destination |-> [ToAddresses |-> <<RECIPIENT_EMAIL>>],
   Message |->
     [Body |-> [Html |-> [Charset |-> "UTF-8",
                          Data |-> HTML_BODY(name, email, subject, message)],
                Text |-> [Charset |-> "UTF-8",
                          Data |-> TEXT_BODY(name, email, subject, message)]],
      Subject |-> [Charset |-> "UTF-8", Data |-> SubjectLine(subject)]],
   Source |-> SENDER_EMAIL,
   ReplyToAddresses |-> <<email>>]

(***************************************************************************)
(* The responses of lambda_handler.                                        *)
(***************************************************************************)
\* The 400 response given the headers of the other responses.
ResponseNoBody_with_headers ==
  [statusCode |-> 400,
   headers |-> ("Access-Control-Allow-Origin" :> "*")
               @@ ("Content-Type" :> "application/json"),
   body |-> json_dumps(<< <<<<"e","r","r","o","r">>, <<"N","o"," ","f","o","r","m"," ","d","a","t",
                                         "a"," ",
                                         "s","u",
                                         "b","m",
                                         "i","t",
                                         "t","e",
                                         "d",".">>>> >>)]

ResponseNoBody ==
  [statusCode |-> 400,
   body |-> json_dumps(<< <<<<"e","r","r","o","r">>, <<"N","o"," ","f","o","r","m"," ","d","a","t",
                                         "a"," ",
                                         "s","u",
                                         "b","m",
                                         "i","t",
                                         "t","e",
                                         "d",".">>>> >>)]

ResponseClientError ==
  [statusCode |-> 500,
   headers |-> ("Access-Control-Allow-Origin" :> "*")
               @@ ("Content-Type" :> "application/json"),
   body |-> json_dumps(<< <<<<"e","r","r","o","r">>, <<"F","a","i","l","e","d"," ","t","o"," ","s",
                                         "e","n",
                                         "d"," ",
                                         "e","m",
                                         "a","i",
                                         "l",".",
                                         " ","C",
                                         "h","e",
                                         "c","k",
                                         " ","L",
                                         "a","m",
                                         "b","d",
                                         "a"," ",
                                         "l","o",
                                         "g","s",
                                         ".">>>> >>)]

\* The general failure answered as a bad request.
ResponseGeneralError_status400 ==
  [statusCode |-> 400,
   headers |-> ("Access-Control-Allow-Origin" :> "*")
               @@ ("Content-Type" :> "application/json"),
   body |-> json_dumps(<< <<<<"e","r","r","o","r">>, <<"I","n","t","e","r","n","a","l"," ","s","e",
                                         "r","v",
                                         "e","r",
                                         " ","e",
                                         "r","r",
                                         "o","r",
                                         ".">>>> >>)]

ResponseGeneralError ==
  [statusCode |-> 500,
   headers |-> ("Access-Control-Allow-Origin" :> "*")
               @@ ("Content-Type" :> "application/json"),
   body |-> json_dumps(<< <<<<"e","r","r","o","r">>, <<"I","n","t","e","r","n","a","l"," ","s","e",
                                         "r","v",
                                         "e","r",
                                         " ","e",
                                         "r","r",
                                         "o","r",
                                         ".">>>> >>)]

\* The identifier read under a misspelt key, which yields None.
ResponseSuccess_wrong_key(response) ==
  [statusCode |-> 200,
   headers |-> ("Access-Control-Allow-Origin" :> "*")
               @@ ("Content-Type" :> "application/json"),
   body |-> json_dumps(<< <<<<"m","e","s","s","a","g","e">>, <<"E","m","a","i","l"," ","s","e","n","t"," ",
                                           "s",
                                           "u",
                                           "c",
                                           "c",
                                           "e",
                                           "s",
                                           "s",
                                           "f",
                                           "u",
                                           "l",
                                           "l",
                                           "y",
                                           "!">>>>,
                          <<<<"m","e","s","s","a","g","e","_","i","d">>, Format(None)>> >>)]

ResponseSuccess(response) ==
  [statusCode |-> 200,
   headers |-> ("Access-Control-Allow-Origin" :> "*")
               @@ ("Content-Type" :> "application/json"),
   body |-> json_dumps(<< <<<<"m","e","s","s","a","g","e">>, <<"E","m","a","i","l"," ","s","e","n","t"," ",
                                           "s",
                                           "u",
                                           "c",
                                           "c",
                                           "e",
                                           "s",
                                           "s",
                                           "f",
                                           "u",
                                           "l",
                                           "l",
                                           "y",
                                           "!">>>>,
                          <<<<"m","e","s","s","a","g","e","_","i","d">>, response.MessageId>> >>)]

(***************************************************************************)
(* The outcome of one run of lambda_handler: what it returned or raised,   *)
(* the send_email calls it made and the lines it printed.                  *)
(***************************************************************************)
Returns(resp, sent, lines) ==
  [returned |-> <<resp>>, raised |-> <<>>, calls |-> sent, stdout |-> lines]

Raises(exc, sent, lines) ==
  [returned |-> <<>>, raised |-> <<exc>>, calls |-> sent, stdout |-> lines]

\* except Exception as e: the general handler.
ExceptException(e, sent) ==
  Returns(ResponseGeneralError, sent,
          << [text |-> "General Lambda Error: ", arg |-> <<e>>] >>)

\* except ClientError as e: e.response['Error']['Message'] is evaluated for
\* the print before the response is built; a missing key raises KeyError
\* inside the handler, which no later except clause of the same try catches.
ExceptClientError(e, sent) ==
  IF "Error" \notin DOMAIN e.v
  THEN Raises(Exc("KeyError"), sent, <<>>)
  ELSE IF "Message" \notin DOMAIN e.v.Error
  THEN Raises(Exc("KeyError"), sent, <<>>)
  ELSE Returns(ResponseClientError, sent,
               << [text |-> "SES Send Email Error: ",
                   arg |-> <<PyStr(e.v.Error.Message)>>] >>)

\* A failed send tried a second time.
Dispatch_retry(request, res) ==
  IF res.t = "reply"
  THEN Returns(ResponseSuccess(res.v), <<request>>, <<>>)
  ELSE IF res.t = "ClientError"
  THEN ExceptClientError(res, <<request, request>>)
  ELSE ExceptException(res, <<request, request>>)

\* ses_client.send_email(...) and what follows it. res is what the call
\* does with the request: a reply (t = "reply", carrying the MessageId of
\* the SES SendEmail reply), a ClientError with the provider's error
\* response, or another exception (a connection failure, or the parameter
\* validation error boto3 raises for a reply-to address that is not a str).
\* Any outcome is allowed for any request.
Dispatch(request, res) ==
  IF res.t = "reply"
  THEN Returns(ResponseSuccess(res.v), <<request>>, <<>>)
  ELSE IF res.t = "ClientError"
  THEN ExceptClientError(res, <<request>>)
  ELSE ExceptException(res, <<request>>)

\* Lines 37-95: the fields, the two bodies, the send.
Render(form_data, res) ==
  LET name == dict_get(form_data, "name", NA)
      email == dict_get(form_data, "email", NA)
      subject == dict_get(form_data, "subject", NA)
      message == dict_get(form_data, "message", NA)
  IN IF message.t # "str"
     THEN ExceptException(Exc("AttributeError"), <<>>)   \* no .replace
     ELSE Dispatch(SendEmailRequest(name, email, subject, message), res)

\* The whole handler.
Handle(ev, res) ==
  IF event_get(ev, "body").t = "NoneType"   \* is None
  THEN Returns(ResponseNoBody, <<>>, << [text |-> "No body found in the event.", arg |-> <<>>] >>)
  ELSE IF "body" \notin DOMAIN ev
  THEN ExceptException(Exc("KeyError"), <<>>)   \* event['body']
  ELSE LET parsed == json_loads(ev["body"])
       IN IF ~parsed.ok
          THEN ExceptException(parsed.value, <<>>)
          ELSE IF parsed.value.t # "dict"
          THEN ExceptException(Exc("AttributeError"), <<>>)   \* no .get
          ELSE Render(parsed.value, res)

(***************************************************************************)
(* Inputs: the events API Gateway may pass and what the provider may do.   *)
(***************************************************************************)
Keys == {"name", "email", "subject", "message"}

\* The string each field takes when it is submitted.
Submitted(k) ==
  CASE k = "name" -> PyStr(<<"A","l","i","c","e">>)
    [] k = "email" -> PyStr(<<"a","l","i","c","e","@","e","x","a","m","p","l","e",".",
                              "c","o","m">>)
    [] k = "subject" -> PyStr(<<"H","i">>)
    [] k = "message" -> PyStr(<<"H","e","l","l","o","\n","W","o","r","l","d">>)

\* JSON objects holding any subset of the four keys with string values.
StringObjects == {PyDict([k \in D |-> Submitted(k)]) : D \in SUBSET Keys}

\* JSON objects holding a value that is not a string.
OtherObjects ==
  {PyDict([k \in Keys |-> IF k = "email" THEN PyInt(<<"5">>) ELSE Submitted(k)]),
   PyDict([k \in Keys |-> IF k = "message" THEN None ELSE Submitted(k)]),
   PyDict([k \in {"message"} |-> PyInt(<<"5">>)])}

Objects == StringObjects \cup OtherObjects

Bodies ==
  {None, JsonText("empty", None), JsonText("malformed", None),
   JsonText("json", PyList), JsonText("json", PyStr(<<"H","i">>)), JsonText("json", None)}
  \cup {JsonText("json", o) : o \in Objects}

\* The event either lacks the key 'body' or carries it.
Events == {<<>>} \cup {[body |-> b] : b \in Bodies}

MessageIds == {<<"a","b","c","-","1","2","3">>, <<"0","1","0","0","-","x","y","z">>}

ErrorResponses ==
  {[Error |-> [Code |-> "MessageRejected", Message |-> <<"E","m","a","i","l"," ","a","d","d",
                                                         "r",
                                                         "e",
                                                         "s",
                                                         "s",
                                                         " ",
                                                         "i",
                                                         "s",
                                                         " ",
                                                         "n",
                                                         "o",
                                                         "t",
                                                         " ",
                                                         "v",
                                                         "e",
                                                         "r",
                                                         "i",
                                                         "f",
                                                         "i",
                                                         "e",
                                                         "d",
                                                         ".">>]],
   [Error |-> [Code |-> "MessageRejected", Message |-> <<"S","e","n","d","i","n","g"," ","p",
                                                         "a",
                                                         "u",
                                                         "s",
                                                         "e",
                                                         "d",
                                                         ".">>]],
   [Error |-> [Code |-> "MessageRejected"]],
   [ResponseMetadata |-> [HTTPStatusCode |-> 500]]}

ProviderOutcomes ==
  {[t |-> "reply", v |-> [MessageId |-> id]] : id \in MessageIds}
  \cup {[t |-> "ClientError", v |-> r] : r \in ErrorResponses}
  \cup {[t |-> "EndpointConnectionError", v |-> <<>>]}

(***************************************************************************)
(* The state machine.                                                      *)
(***************************************************************************)
Init ==
  /\ AWS_REGION = PyStr(<<"u","s","-","e","a","s","t","-","1">>)   \* the default of os.environ.get
  /\ SENDER_EMAIL = PyStr(<<"n","o","-","r","e","p","l","y","@","y","o","u","r","d","o",
                            "m","a","i","n",".","c","o","m">>)
  /\ RECIPIENT_EMAIL = PyStr(<<"y","o","u","r","-","i","n","b","o","x","@","y","o","u",
                               "r","d","o","m","a","i","n",
                               ".","c","o","m">>)
  /\ invocations = 0
  /\ event = <<>>
  /\ outcome = <<>>
  /\ returned = <<>>
  /\ raised = <<>>
  /\ calls = <<>>
  /\ sesCalls = <<>>
  /\ stdout = <<>>

lambda_handler(ev, res) ==
  /\ invocations < MaxInvocations
  /\ LET r == Handle(ev, res)
     IN /\ returned' = r.returned
        /\ raised' = r.raised
        /\ calls' = r.calls
        /\ sesCalls' = sesCalls \o r.calls
        /\ stdout' = r.stdout
        /\ outcome' = IF r.calls = <<>> THEN <<>> ELSE <<res>>
  /\ event' = <<ev>>
  /\ invocations' = invocations + 1
  /\ UNCHANGED <<AWS_REGION, SENDER_EMAIL, RECIPIENT_EMAIL>>

Next == \E ev \in Events : \E res \in ProviderOutcomes : lambda_handler(ev, res)

Spec == Init /\ [][Next]_vars

(***************************************************************************)
(* Vocabulary of the properties: the latest invocation's input, read from  *)
(* the event as API Gateway delivered it.                                  *)
(***************************************************************************)
\* sub occurs in s as a contiguous run of characters.
Contains(s, sub) ==
  \E i \in 1..(Len(s) - Len(sub) + 1) : \A j \in 1..Len(sub) : s[i + j - 1] = sub[j]

Invoked == invocations > 0

BodyAbsent ==
  /\ Invoked
  /\ \/ "body" \notin DOMAIN event[1]
     \/ event[1]["body"].t = "NoneType"

BodyPresent == Invoked /\ "body" \in DOMAIN event[1] /\ event[1]["body"].t = "str"

BodyIsJson == BodyPresent /\ event[1]["body"].v.syntax = "json"

BodyIsObject == BodyIsJson /\ event[1]["body"].v.value.t = "dict"

\* The submitted value of field k, "N/A" when the object lacks the key.
Field(k) ==
  LET form == event[1]["body"].v.value.v
  IN IF k \in DOMAIN form THEN form[k] ELSE PyStr(<<"N","/","A">>)

AllFieldsAreStrings == BodyIsObject /\ \A k \in Keys : Field(k).t = "str"

\* The body parses and both bodies render: the send is reached.
ParsesAndRenders == BodyIsObject /\ Field("message").t = "str"

Returned(code) == Len(returned) = 1 /\ returned[1].statusCode = code

CorsHeaders ==
  ("Access-Control-Allow-Origin" :> "*") @@ ("Content-Type" :> "application/json")

(***************************************************************************)
(* Properties.                                                             *)
(***************************************************************************)

\* C1: no invocation ends with an exception escaping lambda_handler: every
\* invocation returns a response whose statusCode is 200, 400 or 500.
C1_NothingPropagates ==
  Invoked => /\ raised = <<>>
             /\ Len(returned) = 1
             /\ returned[1].statusCode \in {200, 400, 500}

\* C2: a request whose body is absent (key missing or null) is answered 400
\* with body {"error": "No form data submitted."} and send_email is not called.
C2_AbsentBodyIs400 ==
  BodyAbsent => /\ raised = <<>>
                /\ Returned(400)
                /\ returned[1].body = <<"{","\"","e","r","r","o","r","\"",":"," ","\"",
                                        "N","o",
                                        " ","f",
                                        "o","r",
                                        "m"," ",
                                        "d","a",
                                        "t","a",
                                        " ","s",
                                        "u","b",
                                        "m","i",
                                        "t","t",
                                        "e","d",
                                        ".","\"",
                                        "}">>
                /\ calls = <<>>

C2_Witness ==
  /\ BodyAbsent
  /\ "body" \notin DOMAIN event[1]
  /\ Returned(400)
  /\ invocations = 2
  /\ Len(sesCalls) = 1

\* C3: whenever send_email fails with a ClientError the response is 500 with
\* body {"error": "Failed to send email. Check Lambda logs."}, whatever the
\* provider's error payload says.
C3_ProviderFailureIsGeneric ==
  (Invoked /\ outcome # <<>> /\ outcome[1].t = "ClientError")
    => /\ raised = <<>>
       /\ Returned(500)
       /\ returned[1].body = <<"{","\"","e","r","r","o","r","\"",":"," ","\"","F","a",
                               "i","l","e","d"," ","t","o",
                               " ","s","e","n","d"," ","e",
                               "m","a","i","l","."," ","C",
                               "h","e","c","k"," ","L","a",
                               "m","b","d","a"," ","l","o",
                               "g","s",".","\"","}">>

\* C4: a present body that fails for a reason other than a provider
\* ClientError (empty, malformed, not an object, a message that cannot be
\* rendered, another exception from send_email) is answered 500 with body
\* {"error": "Internal server error."}, never 400.
NonProviderFailure ==
  /\ BodyPresent
  /\ \/ ~BodyIsJson
     \/ ~BodyIsObject
     \/ Field("message").t # "str"
     \/ outcome # <<>> /\ outcome[1].t \notin {"reply", "ClientError"}

C4_OtherFailureIs500 ==
  NonProviderFailure
    => /\ raised = <<>>
       /\ Returned(500)
       /\ returned[1].body = <<"{","\"","e","r","r","o","r","\"",":"," ","\"","I","n",
                               "t","e","r","n","a","l"," ",
                               "s","e","r","v","e","r"," ",
                               "e","r","r","o","r",".",
                               "\"","}">>

C4_Witness ==
  /\ NonProviderFailure
  /\ event[1]["body"].v.syntax = "empty"
  /\ Returned(500)

\* C5: when send_email succeeds the response is 200 with body
\* {"message": "Email sent successfully!", "message_id": <id>}, <id> being the
\* identifier of the provider's reply; and 200 is returned only after one
\* send_email call that succeeded.
C5_SuccessIs200 ==
  /\ (Invoked /\ outcome # <<>> /\ outcome[1].t = "reply")
       => /\ raised = <<>>
          /\ Returned(200)
          /\ returned[1].body =
               <<"{","\"","m","e","s","s","a","g","e","\"",":"," ","\"","E","m","a","i",
                 "l"," ","s","e","n","t"," ","s","u","c","c","e","s","s",
                 "f","u","l","l","y","!","\"",","," ","\"","m","e","s",
                 "s","a","g","e","_","i","d","\"",":"," ","\"">>
               \o outcome[1].v.MessageId \o <<"\"","}">>
  /\ Returned(200) => Len(calls) = 1 /\ outcome # <<>> /\ outcome[1].t = "reply"

C5_Witness ==
  /\ Returned(200)
  /\ outcome[1].v.MessageId = <<"a","b","c","-","1","2","3">>
  /\ returned[1].body =
       <<"{","\"","m","e","s","s","a","g","e","\"",":"," ","\"","E","m","a","i","l"," ",
         "s","e","n","t"," ","s","u","c","c","e","s","s","f","u","l","l","y","!",
         "\"",","," ","\"","m","e","s","s","a","g","e","_","i","d","\"",":"," ",
         "\"","a","b","c","-","1","2","3","\"","}">>

\* C6: a JSON object holding any subset of name, email, subject, message with
\* string values reaches send_email, each missing field being "N/A" and each
\* present field its submitted value.
C6_MissingFieldsDefault ==
  AllFieldsAreStrings
    => /\ Len(calls) = 1
       /\ calls[1].ReplyToAddresses = <<Field("email")>>
       /\ calls[1].Message.Subject.Data = <<"N","e","w"," ","C","o","n","t","a","c","t",
                                            ":",
                                            " ">> \o Field("subject").v
       /\ Contains(calls[1].Message.Body.Text.Data,
                   <<"N","a","m","e",":"," ">> \o Field("name").v \o <<"\n">>)
       /\ Contains(calls[1].Message.Body.Text.Data,
                   <<"E","m","a","i","l",":"," ">> \o Field("email").v \o <<"\n">>)
       /\ Contains(calls[1].Message.Body.Text.Data,
                   <<"S","u","b","j","e","c","t",":"," ">> \o Field("subject").v \o <<"\n">>)
       /\ Contains(calls[1].Message.Body.Text.Data,
                   Field("message").v \o <<"\n">>)
       /\ Contains(calls[1].Message.Body.Html.Data,
                   <<"<","s","t","r","o","n","g",">","N","a","m","e",":","<","/","s",
                     "t","r","o","n","g",">"," ">> \o Field("name").v \o <<"<","/","l","i",">">>)
       /\ Contains(calls[1].Message.Body.Html.Data,
                   <<"<","s","t","r","o","n","g",">","E","m","a","i","l",":","<","/",
                     "s","t","r","o","n","g",">"," ">> \o Field("email").v \o <<"<","/","l","i",">">>)
       /\ Contains(calls[1].Message.Body.Html.Data,
                   <<"<","s","t","r","o","n","g",">","S","u","b","j","e","c","t",":",
                     "<","/","s","t","r","o","n","g",">"," ">> \o Field("subject").v \o <<"<","/","p",">">>)

\* The object lacks subject and email and holds the other two.
C6_Witness ==
  /\ AllFieldsAreStrings
  /\ DOMAIN event[1]["body"].v.value.v = {"name", "message"}
  /\ Len(calls) = 1
  /\ calls[1].Message.Subject.Data = <<"N","e","w"," ","C","o","n","t","a","c","t",":",
                                       " ","N","/",
                                       "A">>
  /\ calls[1].ReplyToAddresses = <<PyStr(<<"N","/","A">>)>>

\* C7: an invocation calls send_email at most once and never again after a
\* failure: not at all when it returns 400 or fails to parse or render, once
\* otherwise; every invocation that parses and renders adds exactly one
\* call to those made so far, identical inputs included.
C7_OneSendPerInvocation ==
  [][/\ Len(calls') <= 1
     /\ sesCalls' = sesCalls \o calls'
     /\ ParsesAndRenders' <=> Len(calls') = 1
     /\ Returned(400)' => calls' = <<>>
     /\ Len(sesCalls') = Len(sesCalls) + (IF ParsesAndRenders' THEN 1 ELSE 0)]_vars

\* Two invocations with the same input: two send attempts, the first failed.
C7_Witness ==
  /\ invocations = 2
  /\ Len(sesCalls) = 2
  /\ sesCalls[1] = sesCalls[2]
  /\ outcome[1].t = "ClientError"

\* C8: a 200 or 500 response carries exactly Access-Control-Allow-Origin: *
\* and Content-Type: application/json; the 400 response carries no headers.
C8_HeadersByOutcome ==
  Len(returned) = 1
    => /\ returned[1].statusCode \in {200, 500}
            => /\ "headers" \in DOMAIN returned[1]
               /\ returned[1].headers = CorsHeaders
       /\ returned[1].statusCode = 400 => "headers" \notin DOMAIN returned[1]

C8_Witness ==
  /\ BodyAbsent
  /\ Returned(400)
  /\ DOMAIN returned[1] = {"statusCode", "body"}

\* C9 as stated: in the text body "Message:" is followed by a line separator
\* and then at once by the submitted message.
C9_MessageRightAfterLabel ==
  Len(calls) = 1
    => Contains(calls[1].Message.Body.Text.Data,
                <<"M","e","s","s","a","g","e",":","\n">> \o Format(Field("message")))

\* C9 as amended: in the text body "Message:" is followed by a line
\* separator, the eight spaces that indent the template's lines, and then the
\* submitted message verbatim.
C9_MessageAfterIndent ==
  Len(calls) = 1
    => Contains(calls[1].Message.Body.Text.Data,
                <<"M","e","s","s","a","g","e",":","\n"," "," "," "," "," "," "," "," ">> \o Format(Field("message")) \o <<"\n">>)

C9_Witness ==
  /\ Len(calls) = 1
  /\ Field("message") = PyStr(<<"H","e","l","l","o","\n","W","o","r","l","d">>)
  /\ Contains(calls[1].Message.Body.Text.Data, <<"M","e","s","s","a","g","e",":","\n",
                                                 " ",
                                                 " ",
                                                 " ",
                                                 " ",
                                                 " ",
                                                 " ",
                                                 " ",
                                                 " ",
                                                 "H",
                                                 "e",
                                                 "l",
                                                 "l",
                                                 "o",
                                                 "\n",
                                                 "W",
                                                 "o",
                                                 "r",
                                                 "l",
                                                 "d">>)

\* C10: every send request has the configured sender as Source, the
\* configured recipient alone as ToAddresses, the submitted email field alone
\* and unchanged as ReplyToAddresses and "New Contact: " followed by the
\* submitted subject as Subject; no invocation changes the configuration.
C10_RequestFrame ==
  /\ [](/\ SENDER_EMAIL = PyStr(<<"n","o","-","r","e","p","l","y","@","y","o","u","r",
                                  "d","o","m","a","i",
                                  "n",".","c","o","m">>)
        /\ RECIPIENT_EMAIL = PyStr(<<"y","o","u","r","-","i","n","b","o","x","@","y",
                                     "o","u","r","d",
                                     "o","m","a","i",
                                     "n",".","c","o",
                                     "m">>)
        /\ \A i \in 1..Len(calls) :
             /\ calls[i].Source = SENDER_EMAIL
             /\ calls[i].Destination.ToAddresses = <<RECIPIENT_EMAIL>>
             /\ calls[i].ReplyToAddresses = <<Field("email")>>
             /\ calls[i].Message.Subject.Data
                  = <<"N","e","w"," ","C","o","n","t","a","c","t",":"," ">> \o Format(Field("subject")))
  /\ [][UNCHANGED <<AWS_REGION, SENDER_EMAIL, RECIPIENT_EMAIL>>]_vars

\* A submitted address that is not the recipient's goes to ReplyToAddresses only.
C10_Witness ==
  /\ Len(calls) = 1
  /\ "email" \in DOMAIN event[1]["body"].v.value.v
  /\ calls[1].ReplyToAddresses = <<PyStr(<<"a","l","i","c","e","@","e","x","a","m","p",
                                           "l",
                                           "e",
                                           ".",
                                           "c",
                                           "o",
                                           "m">>)>>
  /\ calls[1].Destination.ToAddresses = <<PyStr(<<"y","o","u","r","-","i","n","b","o",
                                                  "x",
                                                  "@",
                                                  "y",
                                                  "o",
                                                  "u",
                                                  "r",
                                                  "d",
                                                  "o",
                                                  "m",
                                                  "a",
                                                  "i",
                                                  "n",
                                                  ".",
                                                  "c",
                                                  "o",
                                                  "m">>)>>
  /\ calls[1].Message.Subject.Data = <<"N","e","w"," ","C","o","n","t","a","c","t",":",
                                       " ","H","i">>

====
